---- MODULE Spec2Model ----
(***************************************************************************)
(* Qwen-Web-Bridge: the browser session lifecycle of QwenClient and the    *)
(* sending of a message through the chat page (src/src/qwen-client.ts,     *)
(* the cookie-persisting Puppeteer variant, lines 376-675, the one         *)
(* server.ts constructs with an ExtensionContext).                         *)
(*                                                                         *)
(* Spec is the lifecycle; SpecSend is one request at a time against a      *)
(* client that is ready or was never opened, with the chat page changing   *)
(* freely; SpecSendFair adds that every pending round-trip is resumed.     *)
(* SpecRace is two requests at once on one client; SpecServer is the       *)
(* route POST /v1/chat/completions of src/src/server.ts on top of the      *)
(* client; SpecStream is the streaming loop fed with observed texts;       *)
(* SpecPrompt is convertMessagesToPrompt on every message list;            *)
(* SpecCookies is the lifecycle with a failing cookie load told apart;     *)
(* SpecClear adds clearCookies() to it.  SpecProxy is start() and stop()   *)
(* of QwenProxyServer (server.ts 217-260) on top of the client;            *)
(* SpecSession is sendMessage, sendMessageStream and getHistory on a page  *)
(* that holds what earlier responses left and stays as it is; SpecModes    *)
(* is the single-shot and the streaming poll loop reading the same pages.  *)
(*                                                                         *)
(* initialize(), cleanup() and openBrowser() are async methods.  A call    *)
(* runs without interruption from one await to the next, so every action   *)
(* below is one such segment: the resumption of a pending browser          *)
(* round-trip followed by the synchronous code up to the next round-trip.  *)
(* Calls may overlap in time (the extension auto-starts the server and     *)
(* also exposes start / stop / openBrowser commands), so several calls     *)
(* can be pending at once, one per slot of Calls.                          *)
(*                                                                         *)
(* Browsers are numbered in launch order; browser b owns page b.  An       *)
(* operation on a page or browser that has been closed fails; an           *)
(* operation on an open one may succeed or fail.                           *)
(***************************************************************************)
EXTENDS Naturals, Sequences, FiniteSets

\* Number of browser processes the environment can launch in one run.
MaxLaunch == 2

\* The slots in which calls of the client's methods run concurrently.
Calls == {"a", "b"}

Browsers == 1..MaxLaunch

VARIABLES
    client,        \* the QwenClient fields: browser, page, isInitialized
    browsers,      \* per browser process: "none" (not launched), "open", "closed"
    headless,      \* the "headless" configuration value
    cookiePath,    \* whether globalState holds a qwenCookiePath
    calls,         \* per slot, the method call in progress and its position
    lastCall,      \* the method call that finished last, with the state it left
    sinceCleanup,  \* browsers launched since the last cleanup() began or ended
    justCleaned,   \* TRUE iff the step just taken was the end of a cleanup()
    srv,           \* the QwenProxyServer: its flag, its http.Server, its last call
    page,          \* the chat page: its response containers, its completion marker
    reqs,          \* per slot, the sendMessage request in progress and its position
    lastSend,      \* the request that finished last, with the client it left
    obs,           \* what page and poll loop did since the loop / the marker began
    stream,        \* a streaming loop fed with a sequence of observed texts
    prompt,        \* a message list and the prompt made of it
    http           \* per slot, the HTTP response of the POST being handled

lifeVars == <<client, browsers, headless, cookiePath, calls, lastCall,
              sinceCleanup, justCleaned, srv>>

sendVars == <<page, reqs, lastSend, obs>>

pureVars == <<stream, prompt>>

vars == <<lifeVars, sendVars, pureVars, http>>

----------------------------------------------------------------------------
\* The client object and its pure helpers.

\* qwen-client.ts 377-379: browser and page undefined (0), isInitialized false.
NewClient == [browser |-> 0, page |-> 0, isInitialized |-> FALSE]

\* qwen-client.ts 453-455
IsConnected(cl) == cl.isInitialized /\ cl.browser # 0 /\ cl.page # 0

\* qwen-client.ts 389: the guard that makes initialize() a no-op.
AlreadyInitialized(cl) == cl.isInitialized

\* qwen-client.ts 416-420: the catch block of initialize() resets the flag
\* only; it neither closes the browser nor clears browser / page.
InitCatch(cl) == [cl EXCEPT !.isInitialized = FALSE]

\* A catch block that wraps what it caught in an error of its own.
RethrowWrapped(e) == "InitializationFailed"

\* qwen-client.ts 419: the catch block rethrows the error it caught.
Rethrow(e) == e

\* A cleanup() that saves cookies without looking at the flag.
ShouldSaveAlways(cl) == TRUE

\* qwen-client.ts 425: cleanup() saves cookies only when initialized.
ShouldSave(cl) == cl.isInitialized

\* qwen-client.ts 428: cleanup() closes the browser only when there is one.
ShouldClose(cl) == cl.browser # 0

\* A finally block that forgets the page.
CleanupFinallyKeepsPage(cl) == [cl EXCEPT !.browser = 0, !.isInitialized = FALSE]

\* qwen-client.ts 431-436: the finally block of cleanup().
CleanupFinally(cl) == [cl EXCEPT !.browser = 0, !.page = 0, !.isInitialized = FALSE]

FullyUninitialized(cl) == cl.browser = 0 /\ cl.page = 0 /\ ~cl.isInitialized
FullyInitialized(cl) == cl.browser # 0 /\ cl.page # 0 /\ cl.isInitialized

OpenBrowsers(br) == {b \in Browsers : br[b] = "open"}

----------------------------------------------------------------------------
\* Sending a message: sendMessage / sendMessageStream (qwen-client.ts 457-494)
\* and the private steps they run, find, fillChatInput, submitMessage,
\* waitForResponse / pollResponse and waitForStreamingResponse (581-674).
\*
\* Text is a sequence of characters.  The chat page is the environment: its
\* response containers and completion marker change at any moment, and any
\* browser round-trip may reject.  Time is counted in milliseconds since the
\* poll loop read its start time.

\* The characters a response text is made of; " " is white space.
Chars == {"a", " "}

\* Longest response text the page shows.
MaxLen == 1

\* How many response containers the page can hold.
ContainerCounts == {0, 1, 2}

\* qwen-client.ts 612: the overall deadline of pollResponse.  The code's
\* default is 30000 ms; the model counts the same loop against a shorter one.
PollTimeout == 1500

\* qwen-client.ts 649: maxWaitTime of waitForStreamingResponse, 60000 ms in
\* the code, shortened likewise.
StreamTimeout == 900

\* qwen-client.ts 618: the per-tick timeout of waitForSelector.
SelectorTimeout == 1000

\* qwen-client.ts 638, 672: the sleep between two ticks.
SleepMs == 300

\* qwen-client.ts 352-358: SELECTORS.chatInput has five entries.
NumChatInput == 5

\* qwen-client.ts 359-366: SELECTORS.submit has six entries.
NumSubmit == 6

\* The request slots; Solo are the slots that send one request at a time.
Reqs == {"r1", "r2"}
Solo == {"r1"}

Texts == UNION {[1..n -> Chars] : n \in 0..MaxLen}

RECURSIVE TrimStart(_)
TrimStart(t) ==
    IF t # <<>> /\ Head(t) = " " THEN TrimStart(Tail(t)) ELSE t

RECURSIVE TrimEnd(_)
TrimEnd(t) ==
    IF t # <<>> /\ t[Len(t)] = " " THEN TrimEnd(SubSeq(t, 1, Len(t) - 1)) ELSE t

\* String.prototype.trim
Trim(t) == TrimEnd(TrimStart(t))

\* String.prototype.substring(n): the text from index n on, empty when n is
\* not below the length.
Substring(t, n) == SubSeq(t, n + 1, Len(t))

\* The text of the first response container, which is what a tick reads
\* in place of the last one.
ReadFirstContainer(containers) ==
    IF Len(containers) > 0 THEN Trim(containers[1]) ELSE <<>>

\* qwen-client.ts 622-627: the trimmed text of the last element matching
\* SELECTORS.response, "" when there is none or it is empty.
ReadLastContainer(containers) ==
    IF Len(containers) > 0 THEN Trim(containers[Len(containers)]) ELSE <<>>

\* A tick that forgets the text it read.
KeepLast(last, cur) == last

\* qwen-client.ts 629-631
UpdateLast(last, cur) == IF cur # last THEN cur ELSE last

\* qwen-client.ts 653-657: page.$ yields the FIRST element matching
\* SELECTORS.response and the tick reads its untrimmed textContent.
ReadStreamContent(containers) ==
    IF Len(containers) > 0 THEN containers[1] ELSE <<>>

\* qwen-client.ts 658-665: what one streaming tick emits and remembers.
StreamTick(lastContent, currentContent) ==
    LET newChunk == Substring(currentContent, Len(lastContent))
    IN  IF Trim(currentContent) # Trim(lastContent) /\ newChunk # <<>>
        THEN [emit |-> <<newChunk>>, lastContent |-> currentContent]
        ELSE [emit |-> <<>>, lastContent |-> lastContent]

\* qwen-client.ts 616, 652: the loop condition.
WithinDeadline(elapsed, timeout) == elapsed < timeout

\* A loop that also stops as soon as it holds some response text.
PollBreakOnText(isComplete, last) == isComplete \/ last # <<>>

\* qwen-client.ts 633-637, 667-671: the loop breaks iff the marker check
\* found the marker; the text read plays no part.
PollBreak(isComplete, last) == isComplete

\* qwen-client.ts 612, 649
Deadline(kind) == IF kind = "sendMessage" THEN PollTimeout ELSE StreamTimeout

\* qwen-client.ts 458, 480: the guard of sendMessage / sendMessageStream.
NotReady(cl) == ~cl.isInitialized \/ cl.page = 0

\* A client after a successful initialize(): browser 1 with its page.
ReadyClient == [browser |-> 1, page |-> 1, isInitialized |-> TRUE]

\* Requests.

IdleReq ==
    [kind |-> "none", pc |-> "idle",
     i |-> 0, queried |-> <<>>, sel |-> 0, ret |-> "none",
     nType |-> 0, nClick |-> 0, nEnter |-> 0, steps |-> <<>>,
     elapsed |-> 0, nSwallow |-> 0, waitedOk |-> FALSE,
     last |-> <<>>, raw |-> <<>>, fresh |-> FALSE, lastContent |-> <<>>, emit |-> <<>>,
     sawMarker |-> FALSE, exit |-> "none",
     res |-> "none", err |-> "none", result |-> <<>>,
     count |-> 0, handles |-> <<>>, history |-> <<>>]

\* What the page did since the poll loop in progress began (appeared: a
\* response container was on the page at some moment) and what the loop did
\* since the completion marker last became present.
NoObs == [appeared |-> FALSE, mReads |-> 0, mChecks |-> 0, mSleeps |-> 0]

Seen(o, pg) == [o EXCEPT !.appeared = o.appeared \/ Len(pg.containers) > 0]

Count(o, field) ==
    IF page.marker THEN [o EXCEPT ![field] = o[field] + 1] ELSE o

\* lastSend describes the request that ended in the step just taken: the
\* request, the client it left, what was observed during its poll loop.
SendSummary(q, cl, o) == [op |-> q.kind, q |-> q, cl |-> cl, o |-> o]

NoSummary == SendSummary(IdleReq, NewClient, NoObs)

\* Some request is inside its poll loop.
Polling == \E r \in Reqs : reqs[r].pc \in {"wait", "read", "squery", "sread", "check", "sleep"}

\* Longest text a scripted streaming loop observes, and how many ticks it runs.
MaxObsLen == 2

MaxTicks == 3

ObsTexts == UNION {[1..n -> Chars] : n \in 0..MaxObsLen}

\* a is a prefix of b.
IsPrefix(a, b) == Len(a) <= Len(b) /\ SubSeq(b, 1, Len(a)) = a

\* qwen-client.ts 650-651: waitForStreamingResponse starts with an empty
\* lastContent.  tick tells what the latest tick did, prev is lastContent as
\* that tick found it, cur the text it observed, emit what it handed to
\* onChunk, all the chunks handed over so far, joined; appendOnly holds as
\* long as every observation had the one before it as a prefix.  Where the
\* single-shot loop runs beside it, containers is the page both observed
\* last, single the last of pollResponse (qwen-client.ts 614) and done
\* tells that the marker check of the latest tick ended both loops.
IdleStream ==
    [ticks |-> 0, tick |-> "none", prev |-> <<>>, cur |-> <<>>, emit |-> <<>>,
     lastContent |-> <<>>, all |-> <<>>, appendOnly |-> TRUE,
     containers |-> <<>>, single |-> <<>>, done |-> FALSE]

\* types.ts 2-5: the roles of a message, each word one symbol of the text.
Roles == {<<"system">>, <<"user">>, <<"assistant">>}

\* The characters a message content is made of: those of the delimiter.
PromptChars == {"\\", "n"}

\* Longest message content, longest message list.
MaxContent == 2

MaxMessages == 2

Contents == UNION {[1..n -> PromptChars] : n \in 0..MaxContent}

Messages == [role : Roles, content : Contents]

MessageLists == UNION {[1..n -> Messages] : n \in 0..MaxMessages}

\* qwen-client.ts 499: what join() puts between two lines, a backslash and
\* the letter n.
Delimiter == <<"\\", "n">>

\* 499: `${m.role}: ${m.content}`
PromptLine(m) == m.role \o <<":", " ">> \o m.content

\* A join that puts nothing between two lines.
RECURSIVE JoinBare(_)
JoinBare(lines) ==
    IF lines = <<>> THEN <<>> ELSE Head(lines) \o JoinBare(Tail(lines))

\* 499: Array.prototype.join("\\n")
RECURSIVE Join(_)
Join(lines) ==
    IF lines = <<>> THEN <<>>
    ELSE IF Len(lines) = 1 THEN Head(lines)
    ELSE Head(lines) \o Delimiter \o Join(Tail(lines))

\* 496-500
ConvertMessagesToPrompt(messages) ==
    Join([i \in 1..Len(messages) |-> PromptLine(messages[i])])

\* A message list yet to be converted.
IdlePrompt == [messages |-> <<>>, out |-> <<>>, done |-> FALSE]

\* server.ts 54-57: what req.body.messages can be: missing, something that
\* is no array (a string, an object), an array.
NoMessages == [truthy |-> FALSE, isArray |-> FALSE]

MessagesValues ==
    {NoMessages, [truthy |-> TRUE, isArray |-> FALSE], [truthy |-> TRUE, isArray |-> TRUE]}

\* A validation that only asks whether messages is there.
InvalidWhenMissing(messages) == ~messages.truthy

\* server.ts 57: `!openAIRequest.messages || !Array.isArray(openAIRequest.messages)`
Invalid(messages) == ~messages.truthy \/ ~messages.isArray

\* The HTTP response of one POST /v1/chat/completions: pc is where its
\* handler stands ("single": awaiting sendMessage, "stream": awaiting
\* sendMessageStream), called the client method the handler invoked, status
\* the status code set, error and details the error body, content the
\* completion text, events the server-sent events written, ended whether
\* res.end() was called or a body sent.
NoHttp ==
    [pc |-> "none", messages |-> NoMessages, stream |-> FALSE, called |-> "none",
     status |-> 0, error |-> "none", details |-> "none", content |-> <<>>,
     events |-> <<>>, ended |-> FALSE]

\* server.ts 160-179: one `data:` event carrying a chunk as its delta.
ChunkEvent(chunk) == [kind |-> "chunk", text |-> chunk, error |-> "none"]

\* 183-198: the `data:` event with finish_reason "stop".
FinalEvent == [kind |-> "final", text |-> <<>>, error |-> "none"]

\* 199: `data: [DONE]`
DoneEvent == [kind |-> "done", text |-> <<>>, error |-> "none"]

\* 204: `data: {"error": "..."}`
ErrorEvent(e) == [kind |-> "error", text |-> <<>>, error |-> e]

\* 160-179: the onChunk callback the streaming handler passes writes each
\* chunk at once; a caller other than that handler writes nothing.
OnChunk(h, emit) ==
    IF h.pc = "stream"
    THEN [h EXCEPT !.events = @ \o [i \in 1..Len(emit) |-> ChunkEvent(emit[i])]]
    ELSE h

\* 201-206: the catch block of handleStreamingRequest.
StreamCatch(h, e) ==
    [h EXCEPT !.pc = "done", !.ended = TRUE, !.events = Append(@, ErrorEvent(e))]

\* The request q the handler awaited has settled and the handler runs on:
\* 148 res.json(envelope); 69-77 the catch block of the route; 182-200 the
\* final chunk, [DONE], res.end(); 201-206.
OnSettled(h, q) ==
    IF h.pc = "single"
    THEN IF q.res = "resolved"
         THEN [h EXCEPT !.pc = "done", !.ended = TRUE, !.status = 200,
                        !.content = q.result]
         ELSE [h EXCEPT !.pc = "done", !.ended = TRUE, !.status = 500,
                        !.error = "Internal server error", !.details = q.err]
    ELSE IF h.pc = "stream"
    THEN IF q.res = "resolved"
         THEN [h EXCEPT !.pc = "done", !.ended = TRUE,
                        !.events = @ \o <<FinalEvent, DoneEvent>>]
         ELSE StreamCatch(h, q.err)
    ELSE h

\* A response that has ended is out of reach: nothing holds it any more.
Live(h) == IF h.ended THEN NoHttp ELSE h

Forget(responses) == [r \in Reqs |-> Live(responses[r])]

\* No request in progress, an empty page, no response being written.
NoRequests ==
    /\ page = [containers |-> <<>>, marker |-> FALSE]
    /\ reqs = [r \in Reqs |-> IdleReq]
    /\ lastSend = NoSummary
    /\ obs = NoObs
    /\ stream = IdleStream
    /\ prompt = IdlePrompt
    /\ http = [r \in Reqs |-> NoHttp]

----------------------------------------------------------------------------
\* Method calls.

IdleCall ==
    [kind |-> "none", pc |-> "idle", tgt |-> 0,
     res |-> "none", thrown |-> "none", err |-> "none",
     launched |-> 0, nLaunch |-> 0, nLoad |-> 0, loadFailed |-> FALSE, nNav |-> 0,
     nSave |-> 0, nClose |-> 0,
     startClear |-> FALSE, startInit |-> FALSE, prev |-> "none",
     prevBrowser |-> 0, steps |-> <<>>, server |-> 0,
     hadPath |-> FALSE, nCleared |-> 0, nDeleted |-> 0, pathLeft |-> FALSE]

\* Number of http.Server objects app.listen() can create in one run.
MaxServers == 2

Servers == 1..MaxServers

\* A start() or stop() of the proxy server that ended in the step just
\* taken: how it settled, with what error, and the call as it stood.
Op(op, res, err, c) == [op |-> op, res |-> res, err |-> err, c |-> c]

NoOp == Op("none", "none", "none", IdleCall)

\* server.ts 8-28: isServerRunning, this.server (0: undefined), and every
\* http.Server created so far: "none", "pending" (listen() called),
\* "listening", "failed" (listen errored), "closing" (close() called, its
\* callback not yet run), "closed".
NoServer ==
    [isServerRunning |-> FALSE, server |-> 0,
     servers |-> [n \in Servers |-> "none"], last |-> NoOp]

Quiet(sv) == [sv EXCEPT !.last = NoOp]

\* The http.Server the next app.listen() creates.
NewServer(sv) == CHOOSE n \in Servers : sv.servers[n] = "none" /\ \A m \in 1..(n - 1) : sv.servers[m] # "none"

\* server.ts 232: `this.server = this.app.listen(this.port, ...)`
Listen(sv) ==
    [sv EXCEPT !.server = NewServer(sv), !.servers[NewServer(sv)] = "pending"]

\* server.ts 251: server.close() was called by the stop() in c: the server
\* it was called on accepts no connections any more.
Closing(sv, c) ==
    IF c.kind = "stop" /\ c.server # 0 /\ sv.servers[c.server] = "listening"
    THEN [sv EXCEPT !.servers[c.server] = "closing"]
    ELSE sv

\* server.ts 223-230: initialize() has settled inside start(): resolved,
\* start() goes on to listen; rejected, start() rejects with the same error.
Settle(sv, method, c) ==
    IF method = "initialize" /\ c.kind = "start"
    THEN IF c.res = "resolved"
         THEN Listen(Quiet(sv))
         ELSE [sv EXCEPT !.last = Op("start", "rejected", c.err, c)]
    ELSE Closing(Quiet(sv), c)

Quiescent == \A p \in Calls : calls[p].kind = "none"

\* How the cleanup() ended that this moment directly follows, "none" when the
\* step just taken was not the end of a cleanup() or a call is in progress.
PrevCleanup ==
    IF justCleaned /\ Quiescent
    THEN IF lastCall.c.res = "resolved" THEN "resolved" ELSE lastCall.c.thrown
    ELSE "none"

\* The record of a call that starts now, with what it finds: whether the
\* client is cleared, the flag, the browser field.
NewCall(kind) ==
    [IdleCall EXCEPT !.kind = kind,
                     !.startClear = FullyUninitialized(client),
                     !.startInit = client.isInitialized,
                     !.prev = PrevCleanup,
                     !.prevBrowser = client.browser]

Summary(method, c, cl, br) == [method |-> method, c |-> c, cl |-> cl, br |-> br]

\* The call in slot p goes on: it now waits for its next round-trip.
Continue(p, c, cl, br) ==
    /\ client' = cl
    /\ browsers' = br
    /\ calls' = [calls EXCEPT ![p] = c]
    /\ lastCall' = lastCall
    /\ justCleaned' = FALSE
    /\ srv' = Closing(Quiet(srv), c)
    /\ UNCHANGED <<sendVars, pureVars, http>>

\* The method `method` of the call in slot p ends; the slot goes on as `next`.
Finish(p, method, c, next, cl, br) ==
    /\ client' = cl
    /\ browsers' = br
    /\ calls' = [calls EXCEPT ![p] = next]
    /\ lastCall' = Summary(method, c, cl, br)
    /\ justCleaned' = (method = "cleanup")
    /\ srv' = Settle(srv, method, c)
    /\ UNCHANGED <<sendVars, pureVars, http>>

Init ==
    /\ client = NewClient
    /\ browsers = [b \in Browsers |-> "none"]
    /\ headless = TRUE
    /\ cookiePath \in BOOLEAN
    /\ calls = [p \in Calls |-> IdleCall]
    /\ lastCall = Summary("none", IdleCall, NewClient, [b \in Browsers |-> "none"])
    /\ sinceCleanup = 0
    /\ justCleaned = FALSE
    /\ srv = NoServer
    /\ NoRequests

----------------------------------------------------------------------------
\* initialize(), qwen-client.ts 388-421.  It is called directly and, by
\* openBrowser(), as its third step; c.kind tells which.

\* initialize() resolves, leaving client cl.  Inside openBrowser() the call
\* goes on with `await this.page?.bringToFront()` (447): tgt 0 stands for the
\* undefined page, on which the optional call is skipped.
InitReturn(p, c, cl, br) ==
    Finish(p, "initialize", [c EXCEPT !.res = "resolved"],
           IF c.kind = "openBrowser"
           THEN [c EXCEPT !.pc = "front", !.tgt = cl.page,
                          !.steps = Append(@, "initialize")]
           ELSE IF c.kind = "start"
           THEN [c EXCEPT !.pc = "listen", !.server = NewServer(srv),
                          !.steps = Append(@, "initialize")]
           ELSE IdleCall,
           cl, br)

\* 416-420: a step of the try block threw e.  openBrowser() has no handler,
\* so it rejects with what initialize() rejects with.
InitThrow(p, c, e, cl, br) ==
    Finish(p, "initialize",
           [c EXCEPT !.res = "rejected", !.thrown = e, !.err = Rethrow(e)],
           IdleCall, InitCatch(cl), br)

\* 389-403: the no-op return, or puppeteer.launch() is called.
InitEnter(p, c) ==
    IF AlreadyInitialized(client)
    THEN InitReturn(p, c, client, browsers)
    ELSE Continue(p, [c EXCEPT !.pc = "launch", !.nLaunch = @ + 1],
                  client, browsers)

\* 410-412: `await this.page.goto(...)`, on the page the field holds now.
GotoCall(p, c, cl) ==
    IF cl.page = 0
    THEN InitThrow(p, c, "TypeError", cl, browsers)
    ELSE Continue(p, [c EXCEPT !.pc = "goto", !.tgt = cl.page, !.nNav = @ + 1],
                  cl, browsers)

\* 408 and 562-579: loadCookies() reads the persisted cookies when globalState
\* names a file; without one it returns at once and navigation starts.
LoadCookiesCall(p, c, cl) ==
    IF cookiePath
    THEN Continue(p, [c EXCEPT !.pc = "cookies", !.tgt = cl.page, !.nLoad = @ + 1],
                  cl, browsers)
    ELSE GotoCall(p, c, cl)

Initialize(p) ==
    /\ calls[p].kind = "none"
    /\ InitEnter(p, NewCall("initialize"))
    /\ UNCHANGED <<headless, cookiePath, sinceCleanup>>

\* 400-406: launch resolved; this.browser is set and its pages are asked for.
LaunchOk(p) ==
    /\ calls[p].pc = "launch"
    /\ \E b \in Browsers :
         /\ browsers[b] = "none"
         /\ \A a \in Browsers : a < b => browsers[a] # "none"
         /\ Continue(p, [calls[p] EXCEPT !.pc = "pages", !.tgt = b, !.launched = b],
                     [client EXCEPT !.browser = b],
                     [browsers EXCEPT ![b] = "open"])
    /\ sinceCleanup' = sinceCleanup + 1
    /\ UNCHANGED <<headless, cookiePath>>

LaunchFail(p) ==
    /\ calls[p].pc = "launch"
    /\ InitThrow(p, calls[p], "LaunchFailed", client, browsers)
    /\ UNCHANGED <<headless, cookiePath, sinceCleanup>>

\* 405-408: pages() resolved with a first page, which becomes this.page.
PagesOk(p) ==
    /\ calls[p].pc = "pages"
    /\ browsers[calls[p].tgt] = "open"
    /\ LoadCookiesCall(p, calls[p], [client EXCEPT !.page = calls[p].tgt])
    /\ UNCHANGED <<headless, cookiePath, sinceCleanup>>

\* 406: pages() resolved empty; newPage() is called on what this.browser
\* holds now, which a concurrent cleanup() may have cleared.
PagesEmpty(p) ==
    /\ calls[p].pc = "pages"
    /\ browsers[calls[p].tgt] = "open"
    /\ IF client.browser = 0
       THEN InitThrow(p, calls[p], "TypeError", client, browsers)
       ELSE Continue(p, [calls[p] EXCEPT !.pc = "newPage", !.tgt = client.browser],
                     client, browsers)
    /\ UNCHANGED <<headless, cookiePath, sinceCleanup>>

PagesFail(p) ==
    /\ calls[p].pc = "pages"
    /\ InitThrow(p, calls[p], "PagesFailed", client, browsers)
    /\ UNCHANGED <<headless, cookiePath, sinceCleanup>>

NewPageOk(p) ==
    /\ calls[p].pc = "newPage"
    /\ browsers[calls[p].tgt] = "open"
    /\ LoadCookiesCall(p, calls[p], [client EXCEPT !.page = calls[p].tgt])
    /\ UNCHANGED <<headless, cookiePath, sinceCleanup>>

NewPageFail(p) ==
    /\ calls[p].pc = "newPage"
    /\ InitThrow(p, calls[p], "NewPageFailed", client, browsers)
    /\ UNCHANGED <<headless, cookiePath, sinceCleanup>>

\* 562-579: loadCookies() ended, having read, parsed and applied the
\* cookies; initialize() goes on to navigate.
CookiesDone(p) ==
    /\ calls[p].pc = "cookies"
    /\ GotoCall(p, calls[p], client)
    /\ UNCHANGED <<headless, cookiePath, sinceCleanup>>

\* A loadCookies() without its try block: the failure rejects initialize().
LoadCatchRethrows(p, c) ==
    InitThrow(p, [c EXCEPT !.loadFailed = TRUE], "CookieError", client, browsers)

\* 568-577: readFile, JSON.parse or setCookie threw; the catch block logs
\* the error and loadCookies() resolves.
LoadCatch(p, c) == GotoCall(p, [c EXCEPT !.loadFailed = TRUE], client)

CookiesFail(p) ==
    /\ calls[p].pc = "cookies"
    /\ LoadCatch(p, calls[p])
    /\ UNCHANGED <<headless, cookiePath, sinceCleanup>>

\* 410-415: navigation settled; the flag is set.
GotoOk(p) ==
    /\ calls[p].pc = "goto"
    /\ browsers[calls[p].tgt] = "open"
    /\ InitReturn(p, calls[p], [client EXCEPT !.isInitialized = TRUE], browsers)
    /\ UNCHANGED <<headless, cookiePath, sinceCleanup>>

GotoFail(p) ==
    /\ calls[p].pc = "goto"
    /\ InitThrow(p, calls[p], "NavFailed", client, browsers)
    /\ UNCHANGED <<headless, cookiePath, sinceCleanup>>

----------------------------------------------------------------------------
\* cleanup(), qwen-client.ts 423-437: try { save; close } finally { clear },
\* with no catch.  Called directly and as the first step of openBrowser().

\* The try block completed: the finally block runs and cleanup() resolves.
\* Inside openBrowser() the call goes on with config.update (441-445).
CleanupReturn(p, c, br) ==
    Finish(p, "cleanup", [c EXCEPT !.res = "resolved"],
           IF c.kind = "openBrowser"
           THEN [c EXCEPT !.pc = "config", !.tgt = 0, !.steps = Append(@, "cleanup")]
           ELSE IF c.kind = "stop"
           THEN [c EXCEPT !.pc = "closing", !.res = "resolved"]
           ELSE IdleCall,
           CleanupFinally(client), br)

\* A step of the try block threw e: the finally block runs and e propagates.
CleanupThrow(p, c, e, br) ==
    Finish(p, "cleanup", [c EXCEPT !.res = "rejected", !.thrown = e, !.err = e],
           IF c.kind = "stop"
           THEN [c EXCEPT !.pc = "closing", !.res = "rejected", !.thrown = e]
           ELSE IdleCall,
           CleanupFinally(client), br)

\* 428-430
CloseCall(p, c) ==
    IF ShouldClose(client)
    THEN Continue(p, [c EXCEPT !.pc = "close", !.tgt = client.browser, !.nClose = @ + 1],
                  client, browsers)
    ELSE CleanupReturn(p, c, browsers)

\* 425-427 and 544-560: saveCookies() is called when initialized; it does its
\* round-trips only when there is a page.  nSave counts its calls.
CleanupEnter(p, c) ==
    IF ShouldSave(client)
    THEN IF client.page # 0
         THEN Continue(p, [c EXCEPT !.pc = "save", !.tgt = client.page, !.nSave = @ + 1],
                       client, browsers)
         ELSE CloseCall(p, [c EXCEPT !.nSave = @ + 1])
    ELSE CloseCall(p, c)

Cleanup(p) ==
    /\ calls[p].kind = "none"
    /\ CleanupEnter(p, NewCall("cleanup"))
    /\ sinceCleanup' = 0
    /\ UNCHANGED <<headless, cookiePath>>

\* 546-558: the cookies were read and written and the path recorded.
SaveOk(p) ==
    /\ calls[p].pc = "save"
    /\ browsers[calls[p].tgt] = "open"
    /\ CloseCall(p, calls[p])
    /\ cookiePath' = TRUE
    /\ sinceCleanup' = 0
    /\ UNCHANGED headless

\* saveCookies() has no handler of its own and cleanup() has no catch.
SaveFail(p) ==
    /\ calls[p].pc = "save"
    /\ CleanupThrow(p, calls[p], "SaveFailed", browsers)
    /\ sinceCleanup' = 0
    /\ UNCHANGED <<headless, cookiePath>>

CloseOk(p) ==
    /\ calls[p].pc = "close"
    /\ CleanupReturn(p, calls[p], [browsers EXCEPT ![calls[p].tgt] = "closed"])
    /\ sinceCleanup' = 0
    /\ UNCHANGED <<headless, cookiePath>>

\* browser.close() threw: the process may or may not have gone.
CloseFail(p) ==
    /\ calls[p].pc = "close"
    /\ \E st \in {browsers[calls[p].tgt], "closed"} :
         CleanupThrow(p, calls[p], "CloseFailed",
                      [browsers EXCEPT ![calls[p].tgt] = st])
    /\ sinceCleanup' = 0
    /\ UNCHANGED <<headless, cookiePath>>

----------------------------------------------------------------------------
\* openBrowser(), qwen-client.ts 439-451.

OpenBrowser(p) ==
    /\ calls[p].kind = "none"
    /\ CleanupEnter(p, NewCall("openBrowser"))
    /\ sinceCleanup' = 0
    /\ UNCHANGED <<headless, cookiePath>>

\* 441-446: the headless setting is written, then initialize() is entered.
ConfigOk(p) ==
    /\ calls[p].pc = "config"
    /\ InitEnter(p, [calls[p] EXCEPT !.steps = Append(@, "visible")])
    /\ headless' = FALSE
    /\ UNCHANGED <<cookiePath, sinceCleanup>>

ConfigFail(p) ==
    /\ calls[p].pc = "config"
    /\ Finish(p, "openBrowser",
              [calls[p] EXCEPT !.res = "rejected", !.thrown = "ConfigFailed",
                               !.err = "ConfigFailed"],
              IdleCall, client, browsers)
    /\ UNCHANGED <<headless, cookiePath, sinceCleanup>>

\* 447: this.page was undefined, the optional call did nothing.
FrontSkip(p) ==
    /\ calls[p].pc = "front"
    /\ calls[p].tgt = 0
    /\ Finish(p, "openBrowser", [calls[p] EXCEPT !.res = "resolved"],
              IdleCall, client, browsers)
    /\ UNCHANGED <<headless, cookiePath, sinceCleanup>>

\* 447-450
FrontOk(p) ==
    /\ calls[p].pc = "front"
    /\ calls[p].tgt # 0
    /\ browsers[calls[p].tgt] = "open"
    /\ Finish(p, "openBrowser",
              [calls[p] EXCEPT !.res = "resolved", !.steps = Append(@, "front")],
              IdleCall, client, browsers)
    /\ UNCHANGED <<headless, cookiePath, sinceCleanup>>

FrontFail(p) ==
    /\ calls[p].pc = "front"
    /\ calls[p].tgt # 0
    /\ Finish(p, "openBrowser",
              [calls[p] EXCEPT !.res = "rejected", !.thrown = "FrontFailed",
                               !.err = "FrontFailed"],
              IdleCall, client, browsers)
    /\ UNCHANGED <<headless, cookiePath, sinceCleanup>>

----------------------------------------------------------------------------
\* Sending a message: the request state machine.

\* The request in slot r goes on: it now waits for its next round-trip.  h is
\* the response of the handler that awaits it.
SendContinueFor(r, q, o, h) ==
    /\ reqs' = [reqs EXCEPT ![r] = q]
    /\ obs' = o
    /\ lastSend' = NoSummary
    /\ http' = [Forget(http) EXCEPT ![r] = Live(h)]
    /\ UNCHANGED <<page, lifeVars, pureVars>>

SendContinue(r, q, o) == SendContinueFor(r, q, o, http[r])

\* The request in slot r ends as q, and the handler that awaits it runs on.
SendFinishFor(r, q, o, h) ==
    /\ reqs' = [reqs EXCEPT ![r] = IdleReq]
    /\ lastSend' = SendSummary(q, client, o)
    /\ obs' = NoObs
    /\ http' = [Forget(http) EXCEPT ![r] = OnSettled(Live(h), q)]
    /\ UNCHANGED <<page, lifeVars, pureVars>>

SendFinish(r, q, o) == SendFinishFor(r, q, o, http[r])

\* A request rejects with the error e.
SendThrow(r, q, e) ==
    SendFinish(r, [q EXCEPT !.res = "rejected", !.err = e, !.exit = "thrown"], obs)

InitSend ==
    /\ client \in {NewClient, ReadyClient}
    /\ browsers = [b \in Browsers |->
                     IF client.browser = b THEN "open" ELSE "none"]
    /\ headless = TRUE
    /\ cookiePath = FALSE
    /\ calls = [p \in Calls |-> IdleCall]
    /\ lastCall = Summary("none", IdleCall, NewClient, [b \in Browsers |-> "none"])
    /\ sinceCleanup = 0
    /\ justCleaned = FALSE
    /\ srv = NoServer
    /\ NoRequests

\* A scan that leaves out the first selector of the list.
FindFromSecond(q, pc) == [q EXCEPT !.pc = pc, !.i = 2, !.queried = <<2>>, !.sel = 0]

\* qwen-client.ts 581-588: find() queries the selectors of a list one by one,
\* starting with the first.
FindFirst(q, pc) == [q EXCEPT !.pc = pc, !.i = 1, !.queried = <<1>>, !.sel = 0]

\* qwen-client.ts 583-586: the next selector of the list is queried.
FindNext(q) == [q EXCEPT !.i = q.i + 1, !.queried = Append(q.queried, q.i + 1)]

\* A client that takes a request only when no other is in progress.
SendEnterExclusive(r, kind, h) ==
    /\ \A s \in Reqs : reqs[s].kind = "none"
    /\ LET q == [IdleReq EXCEPT !.kind = kind]
       IN  IF NotReady(client)
           THEN SendFinishFor(r, [q EXCEPT !.res = "rejected", !.exit = "thrown",
                                          !.err = "NotInitialized"], obs, h)
           ELSE SendContinueFor(r, FindFirst([q EXCEPT !.steps = <<"fill">>],
                                             "findInput"), obs, h)

\* qwen-client.ts 457-465, 476-488: the guard, then fillChatInput(prompt)
\* runs up to its first page.$ .  h is the response of the calling handler.
SendEnterFor(r, kind, h) ==
    /\ reqs[r].kind = "none"
    /\ LET q == [IdleReq EXCEPT !.kind = kind]
       IN  IF NotReady(client)
           THEN SendFinishFor(r, [q EXCEPT !.res = "rejected", !.exit = "thrown",
                                          !.err = "NotInitialized"], obs, h)
           ELSE SendContinueFor(r, FindFirst([q EXCEPT !.steps = <<"fill">>],
                                             "findInput"), obs, h)

SendEnter(r, kind) == SendEnterFor(r, kind, http[r])

SendMessage(r) == SendEnter(r, "sendMessage")

SendMessageStream(r) == SendEnter(r, "sendMessageStream")

\* A fillChatInput that does not await type(): the submission begins while
\* the prompt is still being typed.
FindInputHitNoAwait(r) ==
    /\ reqs[r].pc = "findInput"
    /\ SendContinue(r, FindFirst([reqs[r] EXCEPT
                            !.nType = reqs[r].nType + 1,
                            !.steps = Append(reqs[r].steps, "submit")],
                          "findSubmit"), obs)

\* qwen-client.ts 585, 592-593: page.$ found an element for chat-input
\* selector i; find returns it and fillChatInput types the prompt into it.
FindInputHit(r) ==
    /\ reqs[r].pc = "findInput"
    /\ SendContinue(r, [reqs[r] EXCEPT !.pc = "type", !.sel = reqs[r].i,
                                       !.nType = reqs[r].nType + 1], obs)

\* qwen-client.ts 583-587, 591-592: page.$ found nothing for selector i; the
\* next one is queried, and after the last one fillChatInput returns false.
FindInputMiss(r) ==
    /\ reqs[r].pc = "findInput"
    /\ IF reqs[r].i < NumChatInput
       THEN SendContinue(r, FindNext(reqs[r]), obs)
       ELSE SendContinue(r, [reqs[r] EXCEPT
                                !.pc = "afterFill", !.ret = "false",
                                !.steps = Append(reqs[r].steps, "notFilled")], obs)

\* qwen-client.ts 593-594: type() resolved, fillChatInput returns true.
TypeOk(r) ==
    /\ reqs[r].pc = "type"
    /\ SendContinue(r, [reqs[r] EXCEPT
                            !.pc = "afterFill", !.ret = "true",
                            !.steps = Append(reqs[r].steps, "filled")], obs)

\* A sendMessage that ignores what fillChatInput returned.
AfterFillUnchecked(r) ==
    /\ reqs[r].pc = "afterFill"
    /\ SendContinue(r, FindFirst([reqs[r] EXCEPT
                            !.steps = Append(reqs[r].steps, "submit"),
                            !.ret = "none"], "findSubmit"), obs)

\* qwen-client.ts 465-470, 597-599: sendMessage resumes with the result of
\* fillChatInput: it throws when that is false, else submitMessage() runs up
\* to its first page.$ .
AfterFill(r) ==
    /\ reqs[r].pc = "afterFill"
    /\ IF reqs[r].ret # "true"
       THEN SendThrow(r, reqs[r], "InputNotFound")
       ELSE SendContinue(r, FindFirst([reqs[r] EXCEPT
                                !.steps = Append(reqs[r].steps, "submit"),
                                !.ret = "none"], "findSubmit"), obs)

\* A submitMessage that presses Enter even after it clicked a button.
FindSubmitHitThenEnter(r) ==
    /\ reqs[r].pc = "findSubmit"
    /\ SendContinue(r, [reqs[r] EXCEPT !.pc = "click", !.sel = reqs[r].i,
                                       !.nClick = reqs[r].nClick + 1,
                                       !.nEnter = reqs[r].nEnter + 1], obs)

\* qwen-client.ts 600-601: page.$ found an element for submit selector i,
\* which is clicked.
FindSubmitHit(r) ==
    /\ reqs[r].pc = "findSubmit"
    /\ SendContinue(r, [reqs[r] EXCEPT !.pc = "click", !.sel = reqs[r].i,
                                       !.nClick = reqs[r].nClick + 1], obs)

\* qwen-client.ts 583-587, 602-603: nothing found for submit selector i; the
\* next one is queried, and after the last one Enter is pressed.
FindSubmitMiss(r) ==
    /\ reqs[r].pc = "findSubmit"
    /\ IF reqs[r].i < NumSubmit
       THEN SendContinue(r, FindNext(reqs[r]), obs)
       ELSE SendContinue(r, [reqs[r] EXCEPT !.pc = "press",
                                            !.nEnter = reqs[r].nEnter + 1], obs)

\* qwen-client.ts 601, 605: click() resolved, submitMessage returns.
ClickOk(r) ==
    /\ reqs[r].pc = "click"
    /\ SendContinue(r, [reqs[r] EXCEPT
                            !.pc = "afterSubmit", !.ret = "done",
                            !.steps = Append(reqs[r].steps, "submitted")], obs)

\* qwen-client.ts 603, 605: keyboard.press resolved, submitMessage returns.
PressOk(r) ==
    /\ reqs[r].pc = "press"
    /\ SendContinue(r, [reqs[r] EXCEPT
                            !.pc = "afterSubmit", !.ret = "done",
                            !.steps = Append(reqs[r].steps, "submitted")], obs)

\* qwen-client.ts 617-621: waitForSelector gave up after SelectorTimeout ms
\* and the catch block swallowed its error.
Swallow(q) == [q EXCEPT !.elapsed = q.elapsed + SelectorTimeout,
                        !.nSwallow = q.nSwallow + 1]

\* A sleep that takes no time.
SleepOverAtOnce(q) == q

\* qwen-client.ts 638, 672: SleepMs ms have passed.
SleepOver(q) == [q EXCEPT !.elapsed = q.elapsed + SleepMs]

\* qwen-client.ts 616, 641, 652, 674: the loop condition is evaluated; the
\* next tick starts with its first round-trip, or the loop is over and
\* pollResponse returns last.trim() (the streaming loop returns nothing).
LoopTop(r, q, o) ==
    IF WithinDeadline(q.elapsed, Deadline(q.kind))
    THEN SendContinue(r, [q EXCEPT !.emit = <<>>, !.fresh = FALSE,
                             !.pc = IF q.kind = "sendMessage" THEN "wait"
                                                              ELSE "squery"], o)
    ELSE SendFinish(r, [q EXCEPT !.exit = "timedOut", !.res = "resolved",
                                 !.result = Trim(q.last)], o)

\* qwen-client.ts 470-473, 490-493, 607-616, 643-652: sendMessage resumes
\* after submitMessage and enters the poll loop.
AfterSubmit(r) ==
    /\ reqs[r].pc = "afterSubmit"
    /\ LoopTop(r, [reqs[r] EXCEPT !.steps = Append(reqs[r].steps, "poll"),
                                  !.i = 0, !.queried = <<>>, !.sel = 0,
                                  !.ret = "none"],
               Seen(NoObs, page))

\* qwen-client.ts 617-618: the response container is there, waitForSelector
\* resolves.
WaitOk(r) ==
    /\ reqs[r].pc = "wait"
    /\ Len(page.containers) > 0
    /\ SendContinue(r, [reqs[r] EXCEPT !.pc = "read", !.waitedOk = TRUE], obs)

\* A poll loop that lets the timeout of waitForSelector escape.
WaitTimeoutThrows(r) ==
    /\ reqs[r].pc = "wait"
    /\ Len(page.containers) = 0
    /\ SendThrow(r, Swallow(reqs[r]), "TimeoutError")

\* qwen-client.ts 617-621: no response container for SelectorTimeout ms;
\* waitForSelector rejects and the catch block swallows the error.
WaitTimeout(r) ==
    /\ reqs[r].pc = "wait"
    /\ Len(page.containers) = 0
    /\ SendContinue(r, [Swallow(reqs[r]) EXCEPT !.pc = "read"], obs)

\* qwen-client.ts 622-631: the text of the last container is read and kept.
ReadText(r) ==
    /\ reqs[r].pc = "read"
    /\ SendContinue(r, [reqs[r] EXCEPT
            !.pc = "check", !.fresh = TRUE,
            !.raw = IF Len(page.containers) > 0
                    THEN page.containers[Len(page.containers)] ELSE <<>>,
            !.last = UpdateLast(reqs[r].last, ReadLastContainer(page.containers))],
          Count(obs, "mReads"))

\* qwen-client.ts 653-654: page.$ for the response container.
StreamQuery(r) ==
    /\ reqs[r].pc = "squery"
    /\ SendContinue(r, [reqs[r] EXCEPT
            !.pc = IF Len(page.containers) > 0 THEN "sread" ELSE "check"], obs)

\* qwen-client.ts 655-665: the text of the element found is read and the
\* part not yet delivered is handed to onChunk.  An element that left the
\* page meanwhile still has the text it had.
StreamRead(r) ==
    /\ reqs[r].pc = "sread"
    /\ \E currentContent \in IF Len(page.containers) > 0
                             THEN {ReadStreamContent(page.containers)}
                             ELSE Texts :
          LET t == StreamTick(reqs[r].lastContent, currentContent)
          IN  SendContinueFor(r, [reqs[r] EXCEPT
                    !.pc = "check",
                    !.lastContent = t.lastContent,
                    !.emit = t.emit],
                  Count(obs, "mReads"), OnChunk(http[r], t.emit))

\* A marker check that breaks the loop only when the check before it had
\* found the marker too.
CheckMarkerTwice(r) ==
    /\ reqs[r].pc = "check"
    /\ LET q == [reqs[r] EXCEPT !.sawMarker = page.marker]
           o == Count(obs, "mChecks")
       IN  IF page.marker /\ reqs[r].sawMarker
           THEN SendFinish(r, [q EXCEPT !.exit = "complete", !.res = "resolved",
                                        !.result = Trim(q.last)], o)
           ELSE SendContinue(r, [q EXCEPT !.pc = "sleep"], Count(o, "mSleeps"))

\* qwen-client.ts 633-638, 667-672: the marker check; found, the loop breaks
\* and the method returns, else the tick ends with a sleep.
CheckMarker(r) ==
    /\ reqs[r].pc = "check"
    /\ LET q == [reqs[r] EXCEPT !.sawMarker = page.marker]
           o == Count(obs, "mChecks")
       IN  IF PollBreak(page.marker, q.last)
           THEN SendFinish(r, [q EXCEPT !.exit = "complete", !.res = "resolved",
                                        !.result = Trim(q.last)], o)
           ELSE SendContinue(r, [q EXCEPT !.pc = "sleep"], Count(o, "mSleeps"))

\* qwen-client.ts 638, 672: the sleep is over, the loop condition is next.
Sleep(r) ==
    /\ reqs[r].pc = "sleep"
    /\ LoopTop(r, SleepOver(reqs[r]), obs)

\* The round-trips no try block surrounds: when one rejects, the request
\* rejects with its error.
Uncaught == {"findInput", "type", "findSubmit", "click", "press",
             "read", "squery", "sread", "check", "hquery", "hread"}

PageFail(r) ==
    /\ reqs[r].pc \in Uncaught
    /\ SendThrow(r, reqs[r], "PageError")

\* The chat page.
PageStep(pg, o) ==
    /\ page' = pg
    /\ obs' = IF Polling THEN Seen(o, pg) ELSE NoObs
    /\ lastSend' = NoSummary
    /\ http' = Forget(http)
    /\ UNCHANGED <<reqs, lifeVars, pureVars>>

NewContainer ==
    /\ Len(page.containers) + 1 \in ContainerCounts
    /\ \E t \in Texts :
          PageStep([page EXCEPT !.containers = Append(page.containers, t)], obs)

SetText ==
    \E n \in 1..Len(page.containers) : \E t \in Texts :
        /\ t # page.containers[n]
        /\ PageStep([page EXCEPT !.containers[n] = t], obs)

ClearPage ==
    /\ page.containers # <<>>
    /\ PageStep([page EXCEPT !.containers = <<>>], obs)

MarkerOn ==
    /\ ~page.marker
    /\ PageStep([page EXCEPT !.marker = TRUE],
                [obs EXCEPT !.mReads = 0, !.mChecks = 0, !.mSleeps = 0])

MarkerOff ==
    /\ page.marker
    /\ PageStep([page EXCEPT !.marker = FALSE],
                [obs EXCEPT !.mReads = 0, !.mChecks = 0, !.mSleeps = 0])

NextSend ==
    \/ \E r \in Solo :
        \/ SendMessage(r) \/ SendMessageStream(r)
        \/ FindInputHit(r) \/ FindInputMiss(r) \/ TypeOk(r) \/ AfterFill(r)
        \/ FindSubmitHit(r) \/ FindSubmitMiss(r) \/ ClickOk(r) \/ PressOk(r)
        \/ AfterSubmit(r)
        \/ WaitOk(r) \/ WaitTimeout(r) \/ ReadText(r)
        \/ StreamQuery(r) \/ StreamRead(r)
        \/ CheckMarker(r) \/ Sleep(r) \/ PageFail(r)
    \/ NewContainer \/ SetText \/ ClearPage \/ MarkerOn \/ MarkerOff

SpecSend == InitSend /\ [][NextSend]_vars

\* A pending round-trip or sleep of the request in slot r is over and the
\* request runs on.  Node resumes an async function once what it awaits has
\* settled; a browser round-trip settles, resolved or rejected, and a timer
\* fires.
Resume(r) ==
    \/ FindInputHit(r) \/ FindInputMiss(r) \/ TypeOk(r) \/ AfterFill(r)
    \/ FindSubmitHit(r) \/ FindSubmitMiss(r) \/ ClickOk(r) \/ PressOk(r)
    \/ AfterSubmit(r)
    \/ WaitOk(r) \/ WaitTimeout(r) \/ ReadText(r)
    \/ StreamQuery(r) \/ StreamRead(r)
    \/ CheckMarker(r) \/ Sleep(r) \/ PageFail(r)

SpecSendFair == SpecSend /\ \A r \in Solo : WF_vars(Resume(r))

----------------------------------------------------------------------------
\* Overlapping requests: both slots send on one initialized client and one
\* page.  The page shows no response container or one, and may gain its marker.

InitRace ==
    /\ client = ReadyClient
    /\ browsers = [b \in Browsers |-> IF client.browser = b THEN "open" ELSE "none"]
    /\ headless = TRUE
    /\ cookiePath = FALSE
    /\ calls = [p \in Calls |-> IdleCall]
    /\ lastCall = Summary("none", IdleCall, NewClient, [b \in Browsers |-> "none"])
    /\ sinceCleanup = 0
    /\ justCleaned = FALSE
    /\ srv = NoServer
    /\ \E containers \in {<<>>, << <<"a">> >>} :
          page = [containers |-> containers, marker |-> FALSE]
    /\ reqs = [r \in Reqs |-> IdleReq]
    /\ lastSend = NoSummary
    /\ obs = NoObs
    /\ stream = IdleStream
    /\ prompt = IdlePrompt
    /\ http = [r \in Reqs |-> NoHttp]

NextRace ==
    \/ \E r \in Reqs :
        \/ SendMessage(r) \/ SendMessageStream(r)
        \/ FindInputHit(r) \/ FindInputMiss(r) \/ TypeOk(r) \/ AfterFill(r)
        \/ FindSubmitHit(r) \/ FindSubmitMiss(r) \/ ClickOk(r) \/ PressOk(r)
        \/ AfterSubmit(r)
        \/ WaitOk(r) \/ WaitTimeout(r) \/ ReadText(r)
        \/ StreamQuery(r) \/ StreamRead(r)
        \/ CheckMarker(r) \/ Sleep(r) \/ PageFail(r)
    \/ MarkerOn

SpecRace == InitRace /\ [][NextRace]_vars

----------------------------------------------------------------------------
\* The HTTP route POST /v1/chat/completions, server.ts 52-78, 114-208, on
\* top of the client: its handler calls sendMessage or sendMessageStream and
\* runs on when the call has settled.

\* 57-61: `return res.status(400).json({error: {message: ...}})`
Reject(r, h) ==
    /\ http' = [Forget(http) EXCEPT ![r] =
                  [h EXCEPT !.pc = "done", !.ended = TRUE, !.status = 400,
                            !.error = "Invalid request: messages array required"]]
    /\ lastSend' = NoSummary
    /\ UNCHANGED <<page, reqs, obs, lifeVars, pureVars>>

\* 52-68, 118, 155-160: a POST arrives; its body is validated, then the
\* streaming handler writes the head and calls sendMessageStream, the other
\* one calls sendMessage.
Post(r) ==
    /\ reqs[r].kind = "none"
    /\ \E messages \in MessagesValues, wantStream \in BOOLEAN :
         LET h == [NoHttp EXCEPT !.messages = messages, !.stream = wantStream]
         IN  IF Invalid(messages)
             THEN Reject(r, h)
             ELSE IF wantStream
             THEN SendEnterFor(r, "sendMessageStream",
                               [h EXCEPT !.pc = "stream", !.status = 200,
                                         !.called = "sendMessageStream"])
             ELSE SendEnterFor(r, "sendMessage",
                               [h EXCEPT !.pc = "single", !.called = "sendMessage"])

NextServer ==
    \/ \E r \in Solo :
        \/ Post(r)
        \/ FindInputHit(r) \/ FindInputMiss(r) \/ TypeOk(r) \/ AfterFill(r)
        \/ FindSubmitHit(r) \/ FindSubmitMiss(r) \/ ClickOk(r) \/ PressOk(r)
        \/ AfterSubmit(r)
        \/ WaitOk(r) \/ WaitTimeout(r) \/ ReadText(r)
        \/ StreamQuery(r) \/ StreamRead(r)
        \/ CheckMarker(r) \/ Sleep(r) \/ PageFail(r)
    \/ NewContainer \/ SetText \/ ClearPage \/ MarkerOn \/ MarkerOff

SpecServer == InitSend /\ [][NextServer]_vars

----------------------------------------------------------------------------
\* The streaming loop on its own, qwen-client.ts 650-673: the ticks of one
\* waitForStreamingResponse, each fed with the text the page shows then.

\* No call in progress on a client never initialized.
InitIdleClient ==
    /\ client = NewClient
    /\ browsers = [b \in Browsers |-> "none"]
    /\ headless = TRUE
    /\ cookiePath = FALSE
    /\ calls = [p \in Calls |-> IdleCall]
    /\ lastCall = Summary("none", IdleCall, NewClient, [b \in Browsers |-> "none"])
    /\ sinceCleanup = 0
    /\ justCleaned = FALSE
    /\ srv = NoServer
    /\ NoRequests

\* A list of chunks, joined.
RECURSIVE Concat(_)
Concat(chunks) ==
    IF chunks = <<>> THEN <<>> ELSE Head(chunks) \o Concat(Tail(chunks))

\* 653-665: a tick that finds the response element and reads currentContent.
StreamObserve(currentContent) ==
    /\ stream.ticks < MaxTicks
    /\ LET t == StreamTick(stream.lastContent, currentContent)
       IN  stream' = [ticks |-> stream.ticks + 1, tick |-> "observed",
                      prev |-> stream.lastContent, cur |-> currentContent,
                      emit |-> t.emit, lastContent |-> t.lastContent,
                      all |-> stream.all \o Concat(t.emit),
                      appendOnly |-> stream.appendOnly
                                     /\ IsPrefix(stream.cur, currentContent),
                      containers |-> stream.containers,
                      single |-> stream.single, done |-> stream.done]
    /\ UNCHANGED <<lifeVars, sendVars, prompt, http>>

\* 653-655: a tick whose page.$ finds no response element reads nothing.
StreamSkip ==
    /\ stream.ticks < MaxTicks
    /\ stream' = [stream EXCEPT !.ticks = @ + 1, !.tick = "skipped",
                                !.prev = stream.lastContent, !.emit = <<>>]
    /\ UNCHANGED <<lifeVars, sendVars, prompt, http>>

NextStream ==
    \/ \E currentContent \in ObsTexts : StreamObserve(currentContent)
    \/ StreamSkip

SpecStream == InitIdleClient /\ [][NextStream]_vars

----------------------------------------------------------------------------
\* The two poll loops side by side: each tick both read the same page.

\* The page only grew: no container left it and each text has the text it
\* replaced as a prefix.
GrowsFrom(old, new) ==
    /\ Len(old) <= Len(new)
    /\ \A j \in 1..Len(old) : IsPrefix(old[j], new[j])

\* qwen-client.ts 622-631 and 653-665 on one page state: pollResponse reads
\* the last response container, waitForStreamingResponse the element page.$
\* finds, if there is one; 633-637 and 667-671: the marker ends both loops.
ModesObserve(containers, isComplete) ==
    /\ stream.ticks < MaxTicks
    /\ ~stream.done
    /\ LET currentContent == ReadStreamContent(containers)
           t == IF Len(containers) > 0
                THEN StreamTick(stream.lastContent, currentContent)
                ELSE [emit |-> <<>>, lastContent |-> stream.lastContent]
       IN  stream' = [ticks |-> stream.ticks + 1,
                      tick |-> IF Len(containers) > 0 THEN "observed" ELSE "skipped",
                      prev |-> stream.lastContent,
                      cur |-> IF Len(containers) > 0 THEN currentContent ELSE stream.cur,
                      emit |-> t.emit, lastContent |-> t.lastContent,
                      all |-> stream.all \o Concat(t.emit),
                      appendOnly |-> stream.appendOnly
                                     /\ GrowsFrom(stream.containers, containers),
                      containers |-> containers,
                      single |-> UpdateLast(stream.single, ReadLastContainer(containers)),
                      done |-> PollBreak(isComplete, ReadLastContainer(containers))]
    /\ UNCHANGED <<lifeVars, sendVars, prompt, http>>

NextModes ==
    \E n \in ContainerCounts : \E containers \in [1..n -> Texts] :
    \E isComplete \in BOOLEAN :
        ModesObserve(containers, isComplete)

SpecModes == InitIdleClient /\ [][NextModes]_vars

----------------------------------------------------------------------------
\* convertMessagesToPrompt on its own, qwen-client.ts 496-500.

InitPrompt ==
    /\ client = NewClient
    /\ browsers = [b \in Browsers |-> "none"]
    /\ headless = TRUE
    /\ cookiePath = FALSE
    /\ calls = [p \in Calls |-> IdleCall]
    /\ lastCall = Summary("none", IdleCall, NewClient, [b \in Browsers |-> "none"])
    /\ sinceCleanup = 0
    /\ justCleaned = FALSE
    /\ srv = NoServer
    /\ page = [containers |-> <<>>, marker |-> FALSE]
    /\ reqs = [r \in Reqs |-> IdleReq]
    /\ lastSend = NoSummary
    /\ obs = NoObs
    /\ stream = IdleStream
    /\ http = [r \in Reqs |-> NoHttp]
    /\ \E messages \in MessageLists : prompt = [IdlePrompt EXCEPT !.messages = messages]

Convert ==
    /\ ~prompt.done
    /\ prompt' = [prompt EXCEPT !.out = ConvertMessagesToPrompt(prompt.messages),
                                !.done = TRUE]
    /\ UNCHANGED <<lifeVars, sendVars, stream, http>>

NextPrompt == Convert

SpecPrompt == InitPrompt /\ [][NextPrompt]_vars

----------------------------------------------------------------------------
Next ==
    \E p \in Calls :
        \/ Initialize(p) \/ LaunchOk(p) \/ LaunchFail(p)
        \/ PagesOk(p) \/ PagesEmpty(p) \/ PagesFail(p)
        \/ NewPageOk(p) \/ NewPageFail(p)
        \/ CookiesDone(p) \/ GotoOk(p) \/ GotoFail(p)
        \/ Cleanup(p) \/ SaveOk(p) \/ SaveFail(p) \/ CloseOk(p) \/ CloseFail(p)
        \/ OpenBrowser(p) \/ ConfigOk(p) \/ ConfigFail(p)
        \/ FrontSkip(p) \/ FrontOk(p) \/ FrontFail(p)

Spec == Init /\ [][Next]_vars

\* Loading the cookies, with its failure told apart: one slot opens and
\* closes the session, the other one calls cleanup() at any moment.
Opener == {"a"}

NextCookies ==
    \/ \E p \in Opener :
        \/ Initialize(p) \/ LaunchOk(p) \/ LaunchFail(p)
        \/ PagesOk(p) \/ PagesEmpty(p) \/ PagesFail(p)
        \/ NewPageOk(p) \/ NewPageFail(p)
        \/ CookiesDone(p) \/ CookiesFail(p) \/ GotoOk(p) \/ GotoFail(p)
        \/ OpenBrowser(p) \/ ConfigOk(p) \/ ConfigFail(p)
        \/ FrontSkip(p) \/ FrontOk(p) \/ FrontFail(p)
    \/ \E p \in Calls :
        \/ Cleanup(p) \/ SaveOk(p) \/ SaveFail(p) \/ CloseOk(p) \/ CloseFail(p)

SpecCookies == Init /\ [][NextCookies]_vars

----------------------------------------------------------------------------
\* clearCookies(), qwen-client.ts 522-542.  The call remembers whether the
\* qwenCookiePath key was set when it began (hadPath) and when it ended
\* (pathLeft), how often the browser cookies were cleared and the file
\* deleted.

\* clearCookies() resolves; path tells whether the key is set now.
ClearReturn(p, c, path) ==
    /\ Finish(p, "clearCookies",
              [c EXCEPT !.pc = "idle", !.res = "resolved", !.pathLeft = path],
              IdleCall, client, browsers)
    /\ cookiePath' = path
    /\ UNCHANGED <<headless, sinceCleanup>>

\* clearCookies() rejects with the error e.
ClearThrow(p, c, e) ==
    /\ Finish(p, "clearCookies",
              [c EXCEPT !.pc = "idle", !.res = "rejected", !.err = e,
                        !.pathLeft = cookiePath],
              IdleCall, client, browsers)
    /\ UNCHANGED <<headless, cookiePath, sinceCleanup>>

\* 522-524: without a page clearCookies() does nothing and resolves; with
\* one it asks the page's target for a CDP session.
ClearCookies(p) ==
    /\ calls[p].kind = "none"
    /\ LET c == [NewCall("clearCookies") EXCEPT !.hadPath = cookiePath]
       IN  IF client.page = 0
           THEN ClearReturn(p, c, cookiePath)
           ELSE /\ Continue(p, [c EXCEPT !.pc = "session", !.tgt = client.page],
                            client, browsers)
                /\ UNCHANGED <<headless, cookiePath, sinceCleanup>>

\* 524-525: the session is there; Network.clearBrowserCookies is sent.
SessionOk(p) ==
    /\ calls[p].pc = "session"
    /\ browsers[calls[p].tgt] = "open"
    /\ Continue(p, [calls[p] EXCEPT !.pc = "clear"], client, browsers)
    /\ UNCHANGED <<headless, cookiePath, sinceCleanup>>

\* 525-528: the browser cleared its cookies; the key is read, and when it
\* names a file the file is deleted.
ClearOk(p) ==
    /\ calls[p].pc = "clear"
    /\ browsers[calls[p].tgt] = "open"
    /\ LET c == [calls[p] EXCEPT !.nCleared = @ + 1]
       IN  IF cookiePath
           THEN /\ Continue(p, [c EXCEPT !.pc = "delete"], client, browsers)
                /\ UNCHANGED <<headless, cookiePath, sinceCleanup>>
           ELSE ClearReturn(p, c, cookiePath)

\* 524-525: createCDPSession or send rejected; no try block surrounds them.
ClearFail(p) ==
    /\ calls[p].pc \in {"session", "clear"}
    /\ ClearThrow(p, calls[p], "CdpError")

\* 530: the file is deleted; the key is reset next.
DeleteOk(p) ==
    /\ calls[p].pc = "delete"
    /\ Continue(p, [calls[p] EXCEPT !.pc = "update", !.nDeleted = @ + 1],
                client, browsers)
    /\ UNCHANGED <<headless, cookiePath, sinceCleanup>>

\* 531: globalState.update resolved, the key is unset.
UpdateOk(p) ==
    /\ calls[p].pc = "update"
    /\ ClearReturn(p, calls[p], FALSE)

\* 532-534: fs.delete or globalState.update rejected; the catch block logs
\* the error, and the key is as it was.
DeleteCatch(p) ==
    /\ calls[p].pc \in {"delete", "update"}
    /\ ClearReturn(p, calls[p], cookiePath)

NextClear ==
    \/ \E p \in Opener :
        \/ Initialize(p) \/ LaunchOk(p) \/ LaunchFail(p)
        \/ PagesOk(p) \/ PagesEmpty(p) \/ PagesFail(p)
        \/ NewPageOk(p) \/ NewPageFail(p)
        \/ CookiesDone(p) \/ CookiesFail(p) \/ GotoOk(p) \/ GotoFail(p)
    \/ \E p \in Calls :
        \/ Cleanup(p) \/ SaveOk(p) \/ SaveFail(p) \/ CloseOk(p) \/ CloseFail(p)
        \/ ClearCookies(p) \/ SessionOk(p) \/ ClearOk(p) \/ ClearFail(p)
        \/ DeleteOk(p) \/ UpdateOk(p) \/ DeleteCatch(p)

SpecClear == Init /\ [][NextClear]_vars

----------------------------------------------------------------------------
\* QwenProxyServer.start() and stop(), server.ts 217-260, on top of the
\* client.  The extension calls them from its commands and, start(), on
\* activation, so that calls may overlap; each runs in a slot of Calls.

\* A step of start() or stop() outside the client: the call goes on as c,
\* the server as sv.
ServerStep(p, c, sv) ==
    /\ calls' = [calls EXCEPT ![p] = c]
    /\ srv' = sv
    /\ justCleaned' = FALSE
    /\ UNCHANGED <<client, browsers, lastCall, headless, cookiePath, sinceCleanup,
                   sendVars, pureVars, http>>

\* A start() that calls listen() without waiting for initialize().
StartNoAwait(p, c) ==
    ServerStep(p, [c EXCEPT !.pc = "listen", !.server = NewServer(srv)], Listen(Quiet(srv)))

\* 223-225: `await this.qwenClient.initialize()`
StartInit(p, c) ==
    /\ InitEnter(p, c)
    /\ UNCHANGED <<headless, cookiePath, sinceCleanup>>

\* 217-225: the guard, then the executor runs up to the first await inside
\* initialize().
Start(p) ==
    /\ calls[p].kind = "none"
    /\ Cardinality({n \in Servers : srv.servers[n] # "none"})
          + Cardinality({q \in Calls : calls[q].kind = "start" /\ calls[q].pc # "listen"})
          < MaxServers
    /\ IF srv.isServerRunning
       THEN ServerStep(p, IdleCall,
                       [srv EXCEPT !.last = Op("start", "rejected", "AlreadyRunning",
                                               NewCall("start"))])
       ELSE StartInit(p, NewCall("start"))

\* 232-236: the server listens, the callback sets the flag and resolves.
\* The port is free only when no server of this process listens on it.
ListenOk(p) ==
    /\ calls[p].pc = "listen"
    /\ \A n \in Servers : srv.servers[n] # "listening"
    /\ ServerStep(p, IdleCall,
                  [srv EXCEPT !.servers[calls[p].server] = "listening",
                              !.isServerRunning = TRUE,
                              !.last = Op("start", "resolved", "none", calls[p])])

\* 238-241: listening failed (the port is in use); the error handler clears
\* the flag and rejects.
ListenError(p) ==
    /\ calls[p].pc = "listen"
    /\ ServerStep(p, IdleCall,
                  [srv EXCEPT !.servers[calls[p].server] = "failed",
                              !.isServerRunning = FALSE,
                              !.last = Op("start", "rejected", "ListenFailed", calls[p])])

\* 245-258: the guard; then server.close(callback) and, not awaited,
\* this.qwenClient.cleanup(), which runs up to its first await.
Stop(p) ==
    /\ calls[p].kind = "none"
    /\ IF srv.server = 0 \/ ~srv.isServerRunning
       THEN ServerStep(p, IdleCall,
                       [srv EXCEPT !.last = Op("stop", "resolved", "none", NewCall("stop"))])
       ELSE /\ CleanupEnter(p, [NewCall("stop") EXCEPT !.server = srv.server])
            /\ sinceCleanup' = 0
            /\ UNCHANGED <<headless, cookiePath>>

\* 251-255: the close callback runs (with an error when the server was not
\* listening): the flag is cleared and stop() resolves.  A cleanup() still
\* in progress runs on with nobody awaiting it.
CloseDone(p) ==
    /\ calls[p].kind = "stop"
    /\ ServerStep(p,
                  IF calls[p].pc = "closing" THEN IdleCall
                  ELSE [calls[p] EXCEPT !.kind = "cleanup"],
                  [srv EXCEPT !.servers[calls[p].server] =
                                  IF @ = "closing" THEN "closed" ELSE @,
                              !.isServerRunning = FALSE,
                              !.last = Op("stop", "resolved", "none", calls[p])])

NextProxy ==
    \E p \in Calls :
        \/ Start(p) \/ ListenOk(p) \/ ListenError(p) \/ Stop(p) \/ CloseDone(p)
        \/ LaunchOk(p) \/ LaunchFail(p)
        \/ PagesOk(p) \/ PagesEmpty(p) \/ PagesFail(p)
        \/ NewPageOk(p) \/ NewPageFail(p)
        \/ CookiesDone(p) \/ GotoOk(p) \/ GotoFail(p)
        \/ SaveOk(p) \/ SaveFail(p) \/ CloseOk(p) \/ CloseFail(p)

SpecProxy == Init /\ [][NextProxy]_vars

----------------------------------------------------------------------------
\* Properties.  lastCall holds the call that ended last together with the
\* client fields and the browser processes as they were when it ended.

Ended(method) == lastCall.method = method
Resolved(method) == lastCall.method = method /\ lastCall.c.res = "resolved"
Rejected(method) == lastCall.method = method /\ lastCall.c.res = "rejected"

\* C1: whenever no call is in progress the client is fully uninitialized or
\* fully initialized, and a failed initialize() leaves it fully uninitialized.
C1_AllOrNothing ==
    /\ Quiescent => FullyUninitialized(client) \/ FullyInitialized(client)
    /\ Rejected("initialize") => FullyUninitialized(lastCall.cl)

\* C2: when initialize() rejects after having launched a browser, that
\* browser has been closed.
C2_FailedInitClosesBrowser ==
    (Rejected("initialize") /\ lastCall.c.launched # 0)
        => lastCall.br[lastCall.c.launched] = "closed"

\* C3: at every moment at most one browser process is launched and not closed.
C3_AtMostOneLiveBrowser == Cardinality(OpenBrowsers(browsers)) <= 1

\* C4: a failing initialize() rejects with the very error its failing step
\* threw, leaves isInitialized false and isConnected() false, and has called
\* launch and goto at most once each.
C4_InitFailurePropagates ==
    Rejected("initialize") =>
        /\ lastCall.c.thrown # "none"
        /\ lastCall.c.err = lastCall.c.thrown
        /\ ~lastCall.cl.isInitialized
        /\ ~IsConnected(lastCall.cl)
        /\ lastCall.c.nLaunch <= 1
        /\ lastCall.c.nNav <= 1

C4_Witness ==
    /\ Rejected("initialize")
    /\ lastCall.c.thrown = "NavFailed"
    /\ lastCall.c.nLaunch = 1

\* C5: between two cleanups the browser is launched at most once, however
\* many initialize() calls are made.
C5_LaunchedAtMostOnce == sinceCleanup <= 1

\* What the guard at 389 does give: an initialize() that starts while the flag
\* is set resolves without a launch, a cookie load or a navigation.
InitNoOpWhenInitialized ==
    (Ended("initialize") /\ lastCall.c.startInit /\ lastCall.c.kind = "initialize") =>
        /\ lastCall.c.res = "resolved"
        /\ lastCall.c.nLaunch = 0 /\ lastCall.c.nLoad = 0 /\ lastCall.c.nNav = 0

\* C6: isConnected() is false on a fresh client, true when initialize() has
\* resolved, false when cleanup() has ended, and always equal to "browser,
\* page and flag all present".
C6_IsConnectedLifecycle ==
    /\ client = NewClient => ~IsConnected(client)
    /\ Resolved("initialize") => IsConnected(lastCall.cl)
    /\ Ended("cleanup") => ~IsConnected(lastCall.cl)
    /\ IsConnected(client) <=> FullyInitialized(client)

\* C7: when cleanup() ends, by returning or by throwing, browser and page are
\* undefined and isInitialized is false.
C7_CleanupAlwaysClears == Ended("cleanup") => FullyUninitialized(lastCall.cl)

C7_Witness ==
    /\ Rejected("cleanup")
    /\ lastCall.c.thrown = "CloseFailed"
    /\ lastCall.c.startInit
    /\ lastCall.c.nSave = 1

\* C8: a cleanup() whose cookie save failed still resolves and still closes
\* the browser the client held.
C8_SaveFailureNotFatal ==
    (Ended("cleanup") /\ lastCall.c.thrown = "SaveFailed") =>
        /\ lastCall.c.res = "resolved"
        /\ lastCall.c.prevBrowser # 0
              => lastCall.br[lastCall.c.prevBrowser] = "closed"

\* C9: a cleanup() that finds the client fully uninitialized, or that directly
\* follows another cleanup() however that one ended, saves nothing, closes
\* nothing, does not throw and leaves the client fully uninitialized.
C9_CleanupIdempotent ==
    (Ended("cleanup") /\ (lastCall.c.startClear \/ lastCall.c.prev # "none")) =>
        /\ lastCall.c.nSave = 0
        /\ lastCall.c.nClose = 0
        /\ lastCall.c.res = "resolved"
        /\ FullyUninitialized(lastCall.cl)

C9_Witness ==
    /\ Ended("cleanup")
    /\ lastCall.c.kind = "cleanup"
    /\ lastCall.c.prev = "CloseFailed"
    /\ lastCall.c.res = "resolved"

\* C10: an openBrowser() that resolves has completed cleanup, then set the
\* visible mode, then initialized, then brought the page to the front; the
\* session is ready and the browser the client held before is closed.
C10_ReopenOrder ==
    Resolved("openBrowser") =>
        /\ lastCall.c.steps = <<"cleanup", "visible", "initialize", "front">>
        /\ ~headless
        /\ IsConnected(lastCall.cl)
        /\ lastCall.c.prevBrowser # 0
              => lastCall.br[lastCall.c.prevBrowser] = "closed"

----------------------------------------------------------------------------
\* Properties of sending a message.  lastSend holds the request that ended
\* in the step just taken.

\* Every request record there is: those in progress and the one that ended.
AllReqs == {reqs[r] : r \in Reqs} \cup {lastSend.q}

Upto(k) == [j \in 1..k |-> j]

Events(q) == {q.steps[j] : j \in 1..Len(q.steps)}

\* qwen-client.ts 464-473, 486-493: the steps of one request and their order.
SendOrder == <<"fill", "filled", "submit", "submitted", "poll">>

SubmitPcs == {"findSubmit", "click", "press", "afterSubmit"}

PollPcs == {"wait", "read", "squery", "sread", "check", "sleep"}

SendEnded == lastSend.op # "none"

\* C11: within one request fill, submit and poll run in that order: the
\* submission starts only after fillChatInput has resolved true and the
\* polling only after submitMessage has resolved.
C11_FillSubmitPollInOrder ==
    \A q \in AllReqs :
        /\ \/ q.steps = SubSeq(SendOrder, 1, Len(q.steps))
           \/ q.steps = <<"fill", "notFilled">>
        /\ q.pc \in SubmitPcs => SubSeq(q.steps, 1, 2) = <<"fill", "filled">>
        /\ q.nClick + q.nEnter > 0 => "filled" \in Events(q)
        /\ q.pc \in PollPcs => q.steps = SendOrder
        /\ q.exit \in {"complete", "timedOut"} => q.steps = SendOrder

C11_Witness ==
    /\ lastSend.op = "sendMessageStream"
    /\ lastSend.q.res = "resolved"
    /\ lastSend.q.steps = SendOrder

\* C12: when no chat-input selector matches, fillChatInput returns false
\* and the request rejects with the input-not-found error, having clicked
\* nothing, pressed no key and polled nothing; the client stays ready.
C12_InputNotFound ==
    /\ \A r \in Reqs :
          (reqs[r].pc = "afterFill" /\ reqs[r].sel = 0)
              => /\ reqs[r].ret = "false"
                 /\ reqs[r].queried = Upto(NumChatInput)
    /\ \A q \in AllReqs :
          "notFilled" \in Events(q)
              => /\ q.steps = <<"fill", "notFilled">>
                 /\ q.nType = 0 /\ q.nClick = 0 /\ q.nEnter = 0
                 /\ q.pc \in {"afterFill", "idle"}
    /\ (SendEnded /\ "notFilled" \in Events(lastSend.q))
          => /\ lastSend.q.res = "rejected"
             /\ lastSend.q.err = "InputNotFound"
             /\ IsConnected(lastSend.cl)
             /\ lastSend.cl = ReadyClient

C12_Witness ==
    /\ lastSend.op = "sendMessage"
    /\ lastSend.q.err = "InputNotFound"
    /\ lastSend.q.queried = Upto(NumChatInput)

\* C13: fillChatInput queries the chat-input selectors in list order and
\* stops at the first that matches; it types the prompt once, into that
\* element, and returns true iff a selector matched.
C13_FirstInputMatchWins ==
    \A r \in Reqs :
        LET q == reqs[r]
        IN  /\ q.pc \in {"findInput", "type", "afterFill"}
                => /\ q.queried = Upto(Len(q.queried))
                   /\ Len(q.queried) \in 1..NumChatInput
            /\ q.pc = "findInput" => q.sel = 0 /\ q.nType = 0
            /\ q.pc = "type" => q.sel = Len(q.queried) /\ q.nType = 1
            /\ q.pc = "afterFill"
                => /\ (q.ret = "true") <=> (q.sel # 0)
                   /\ q.ret \in {"true", "false"}
                   /\ q.sel # 0 => q.sel = Len(q.queried) /\ q.nType = 1
                   /\ q.sel = 0 => Len(q.queried) = NumChatInput /\ q.nType = 0

C13_Witness ==
    \E r \in Reqs :
        /\ reqs[r].pc = "afterFill"
        /\ reqs[r].ret = "true"
        /\ reqs[r].sel = 3
        /\ reqs[r].queried = <<1, 2, 3>>

\* C14: submitMessage clicks, once, the element of the first submit selector
\* that matches and then presses no key; it presses Enter, once, iff no
\* submit selector matches.
C14_ClickFirstOrEnterOnce ==
    \A r \in Reqs :
        LET q == reqs[r]
        IN  /\ q.pc \in SubmitPcs
                => /\ q.queried = Upto(Len(q.queried))
                   /\ Len(q.queried) \in 1..NumSubmit
            /\ q.pc = "findSubmit" => q.nClick = 0 /\ q.nEnter = 0
            /\ q.pc = "afterSubmit"
                => /\ (q.nEnter = 1) <=> (q.sel = 0)
                   /\ q.sel # 0 => /\ q.sel = Len(q.queried)
                                   /\ q.nClick = 1 /\ q.nEnter = 0
                   /\ q.sel = 0 => /\ Len(q.queried) = NumSubmit
                                   /\ q.nClick = 0 /\ q.nEnter = 1

C14_Witness ==
    \E r \in Reqs :
        /\ reqs[r].pc = "afterSubmit"
        /\ reqs[r].sel = 0
        /\ reqs[r].nEnter = 1
        /\ reqs[r].queried = Upto(NumSubmit)

PollEnded(kind) ==
    /\ lastSend.op = kind
    /\ "poll" \in Events(lastSend.q)

\* C15: when the marker check of a tick finds the marker, pollResponse
\* returns at once, and sendMessage resolves with the trimmed text the same
\* tick read from the last response container.
C15_CompleteReturnsTickText ==
    (PollEnded("sendMessage") /\ lastSend.q.sawMarker)
        => /\ lastSend.q.exit = "complete"
           /\ lastSend.q.res = "resolved"
           /\ lastSend.q.fresh
           /\ lastSend.q.result = Trim(lastSend.q.raw)

C15_Witness ==
    /\ PollEnded("sendMessage")
    /\ lastSend.q.exit = "complete"
    /\ lastSend.q.elapsed >= SleepMs
    /\ lastSend.q.result = <<"a">>
    /\ page.containers = << <<" ">>, <<"a">> >>

\* C16: when the loop condition finds the deadline exceeded and no marker
\* check has found the marker, pollResponse does not throw: sendMessage
\* resolves with the trimmed text read last, the empty text if none was.
C16_TimeoutReturnsLastText ==
    (PollEnded("sendMessage") /\ lastSend.q.exit = "timedOut")
        => /\ lastSend.q.elapsed >= PollTimeout
           /\ ~lastSend.q.sawMarker
           /\ lastSend.q.res = "resolved"
           /\ lastSend.q.err = "none"
           /\ lastSend.q.result = Trim(lastSend.q.raw)

C16_Witness ==
    /\ PollEnded("sendMessage")
    /\ lastSend.q.exit = "timedOut"
    /\ lastSend.q.result = <<"a">>

\* C17 as stated: the single-shot poll loop is left only when a marker check
\* found the marker or the deadline is exceeded.
C17_LeavesOnMarkerOrDeadline ==
    PollEnded("sendMessage")
        => lastSend.q.sawMarker \/ lastSend.q.elapsed >= PollTimeout

\* C17, amended: the single-shot poll loop is left only when a marker check
\* found the marker, when the deadline is exceeded, or when a page.evaluate
\* round-trip rejects; the text it read never ends it.
C17_LeavesOnMarkerDeadlineOrError ==
    PollEnded("sendMessage")
        => \/ lastSend.q.exit = "complete" /\ lastSend.q.sawMarker
           \/ lastSend.q.exit = "timedOut" /\ lastSend.q.elapsed >= PollTimeout
           \/ /\ lastSend.q.exit = "thrown"
              /\ lastSend.q.res = "rejected"
              /\ lastSend.q.err = "PageError"

C17_Witness ==
    /\ PollEnded("sendMessage")
    /\ lastSend.q.exit = "complete"
    /\ lastSend.q.elapsed >= SleepMs + SleepMs
    /\ lastSend.q.result = <<"a">>

\* C18 as stated: every poll loop eventually ends, complete or timed out.
C18_PollEndsCompleteOrTimedOut ==
    Polling ~> (SendEnded /\ lastSend.q.exit \in {"complete", "timedOut"})

\* C18, amended: every poll loop eventually ends, whatever the page does:
\* complete, timed out, or rejecting because a page round-trip rejected.
C18_PollTerminates ==
    Polling ~> (SendEnded /\ "poll" \in Events(lastSend.q))

C18_Witness ==
    /\ PollEnded("sendMessageStream")
    /\ lastSend.q.exit = "timedOut"
    /\ ~lastSend.q.sawMarker
    /\ ~page.marker

\* C19: while the completion marker stays on the page a poll loop reads the
\* text at most once more and checks the marker once, and that check ends
\* the loop: no sleep and no read follows it.
C19_StopsWithinOneTick ==
    /\ (Polling /\ page.marker)
          => obs.mReads <= 1 /\ obs.mChecks = 0 /\ obs.mSleeps = 0
    /\ SendEnded
          => /\ lastSend.o.mReads <= 1
             /\ lastSend.o.mChecks <= 1
             /\ lastSend.o.mSleeps = 0
             /\ lastSend.o.mChecks = 1 => lastSend.q.exit = "complete"

C19_Witness ==
    /\ PollEnded("sendMessageStream")
    /\ lastSend.q.exit = "complete"
    /\ lastSend.q.elapsed >= SleepMs
    /\ lastSend.o.mReads = 1
    /\ lastSend.o.mChecks = 1

----------------------------------------------------------------------------
\* Streaming deltas, on the scripted loop.

\* C21: on each tick where the observed text is longer than lastContent and
\* has it as a prefix, exactly one chunk, the new suffix, is handed to onChunk
\* and lastContent becomes the observed text.
C21_GrowthEmitsSuffix ==
    (/\ stream.tick = "observed"
     /\ Len(stream.cur) > Len(stream.prev)
     /\ IsPrefix(stream.prev, stream.cur))
    => /\ stream.emit = <<Substring(stream.cur, Len(stream.prev))>>
       /\ stream.lastContent = stream.cur

\* C22: no chunk is handed to onChunk on a tick where the observed text is
\* unchanged, is shorter than lastContent, or does not have lastContent as a
\* prefix, whatever its length.
C22_NoChunkUnlessAppended ==
    (/\ stream.tick = "observed"
     /\ \/ stream.cur = stream.prev
        \/ Len(stream.cur) < Len(stream.prev)
        \/ ~IsPrefix(stream.prev, stream.cur))
    => stream.emit = <<>>

\* C23: when every observation so far had the one before it as a prefix, the
\* chunks handed over, joined in order, are the text observed last.
C23_ChunksRebuildFinalText ==
    stream.appendOnly => stream.all = stream.cur

----------------------------------------------------------------------------
\* The prompt.

\* The text up to the first delimiter, then the lines of what follows it.
RECURSIVE SplitFrom(_, _)
SplitFrom(text, line) ==
    IF Len(text) < Len(Delimiter) THEN <<line \o text>>
    ELSE IF SubSeq(text, 1, Len(Delimiter)) = Delimiter
         THEN <<line>> \o SplitFrom(SubSeq(text, Len(Delimiter) + 1, Len(text)), <<>>)
         ELSE SplitFrom(Tail(text), Append(line, Head(text)))

\* The lines of a prompt: what stands between its delimiters.  An empty
\* prompt has no line.
Lines(text) == IF text = <<>> THEN <<>> ELSE SplitFrom(text, <<>>)

OneLinePerMessage ==
    Lines(prompt.out) = [i \in 1..Len(prompt.messages) |-> PromptLine(prompt.messages[i])]

ContainsDelimiter(text) ==
    \E i \in 1..Len(text) : IsPrefix(Delimiter, SubSeq(text, i, Len(text)))

\* C24 as stated: for every message list the prompt has exactly one line per
\* message, in input order, each line role, ": ", content, with one delimiter
\* between consecutive lines.
C24_OneLinePerMessage == prompt.done => OneLinePerMessage

\* C24: for every message list in which no content contains the delimiter,
\* the prompt has exactly one line per message, in input order, each line
\* role, ": ", content, with one delimiter between consecutive lines.
C24_OneLinePerMessageNoDelimiter ==
    (/\ prompt.done
     /\ \A i \in 1..Len(prompt.messages) : ~ContainsDelimiter(prompt.messages[i].content))
    => OneLinePerMessage

C24_Witness ==
    /\ prompt.done
    /\ Len(prompt.messages) = 2
    /\ prompt.messages[1].role # prompt.messages[2].role
    /\ prompt.messages[1].content # <<>>
    /\ \A i \in 1..2 : ~ContainsDelimiter(prompt.messages[i].content)

----------------------------------------------------------------------------
\* Overlapping requests.

\* C25: the client does not serialize requests: a slot that is idle can start
\* sendMessage and sendMessageStream whatever the other slot is doing, so that
\* two requests can be between the start of fill and the end of poll at once.
C25_NotSerialized ==
    \A r \in Reqs :
        reqs[r].kind = "none"
        => ENABLED SendMessage(r) /\ ENABLED SendMessageStream(r)

\* Both prompts are typed and neither submission has begun.
C25_Witness ==
    \A r \in Reqs :
        /\ reqs[r].kind # "none"
        /\ "filled" \in Events(reqs[r])
        /\ "submit" \notin Events(reqs[r])

----------------------------------------------------------------------------
\* The HTTP route.

\* C26: a POST whose body has no messages array is answered with status 400
\* and an error message, and neither sendMessage nor sendMessageStream is
\* invoked for it.
C26_NoMessagesArrayIs400 ==
    \A r \in Reqs :
        (http[r].pc # "none" /\ ~http[r].messages.isArray)
        => /\ http[r].ended
           /\ http[r].status = 400
           /\ http[r].error # "none"
           /\ http[r].called = "none"
           /\ reqs[r].kind = "none"
           /\ ~SendEnded

C26_Witness ==
    \E r \in Reqs :
        /\ http[r].status = 400
        /\ http[r].messages.truthy
        /\ ~http[r].messages.isArray

\* C27: an error thrown by the client while a POST is handled, streaming or
\* not, becomes a response with status 500 that carries the error's message.
C27_ClientErrorIs500 ==
    \A r \in Reqs :
        (http[r].ended /\ http[r].called # "none" /\ lastSend.q.res = "rejected")
        => /\ http[r].status = 500
           /\ http[r].details = lastSend.q.err

\* The tick of the streaming loop that reads the text writes what it emits.
ChunkWritten(r) ==
    (reqs[r].pc = "sread" /\ reqs'[r].pc = "check")
    => http'[r].events =
          http[r].events \o [i \in 1..Len(reqs'[r].emit) |-> ChunkEvent(reqs'[r].emit[i])]

\* A streaming response that has ended consists of chunk events, the final
\* chunk and [DONE].
EndedWithDone(h) ==
    /\ Len(h.events) >= 2
    /\ h.events[Len(h.events)] = DoneEvent
    /\ h.events[Len(h.events) - 1] = FinalEvent
    /\ \A i \in 1..(Len(h.events) - 2) : h.events[i].kind = "chunk"

\* C28: for a streaming request every chunk the client emits is written as
\* one `data:` event, in emission order, and the stream ends with a final
\* `data: [DONE]` event, after which the response is ended.
C28_ChunksThenDone ==
    /\ [][\A r \in Reqs : ChunkWritten(r)]_vars
    /\ [](\A r \in Reqs :
            (http[r].ended /\ http[r].called = "sendMessageStream")
            => EndedWithDone(http[r]))

----------------------------------------------------------------------------
\* Cookies.

CallsAndLast == {calls[p] : p \in Calls} \cup {lastCall.c}

\* Every call in progress is a cleanup() that has called saveCookies().
SavedByEach == \A p \in Calls : calls[p].pc \in {"save", "close"} /\ calls[p].nSave = 1

\* C29: in every open/close cycle the persisted cookies are loaded exactly
\* once, after the page exists and before navigation starts, and cookies are
\* saved exactly once, before the browser is closed; cleanup() saves only if
\* the session was initialized.
C29_CookiesOncePerCycle ==
    /\ \A c \in CallsAndLast :
          /\ c.nLoad <= 1 /\ c.nSave <= 1
          /\ c.pc = "cookies" => c.nLoad = 1 /\ c.tgt # 0 /\ c.nNav = 0
          /\ c.pc = "save" => c.nClose = 0
          /\ c.nSave = 1 => c.startInit
    /\ ~SavedByEach

----------------------------------------------------------------------------
\* getHistory, and requests on a page that is left alone: the page holds
\* what earlier responses left on it and does not change while a request runs.

\* Largest count getHistory is called with.
MaxCount == 2

Counts == 0..MaxCount

\* qwen-client.ts 512: responseElements.slice(-count) of n elements, as the
\* positions it keeps.  -0 is 0, so for count 0 the slice starts at the first
\* element; a count above n starts there too.
SliceLast(n, count) ==
    LET start == IF count = 0 \/ count > n THEN 0 ELSE n - count
    IN  [j \in 1..(n - start) |-> start + j]

\* qwen-client.ts 514-516: a text that is not the empty string is pushed,
\* trimmed.
Push(history, text) == IF text # <<>> THEN Append(history, Trim(text)) ELSE history

\* A guard that lets getHistory run on any client.
HistoryGuardNever(cl) == FALSE

\* qwen-client.ts 503: the guard of getHistory.
HistoryGuard(cl) == ~cl.isInitialized \/ cl.page = 0

\* qwen-client.ts 502-511: getHistory(count) throws when the guard fails,
\* else it asks the page for the response elements.
GetHistory(r) ==
    /\ reqs[r].kind = "none"
    /\ \E count \in Counts :
          LET q == [IdleReq EXCEPT !.kind = "getHistory", !.count = count]
          IN  IF HistoryGuard(client)
              THEN SendThrow(r, q, "NotInitialized")
              ELSE SendContinue(r, [q EXCEPT !.pc = "hquery"], obs)

\* qwen-client.ts 519: getHistory returns the array.
HistoryReturn(r, q) ==
    SendFinish(r, [q EXCEPT !.res = "resolved", !.exit = "returned"], obs)

\* qwen-client.ts 511-512: page.$$ resolves with the handles of the response
\* elements and the loop starts over the slice.
HistoryQuery(r) ==
    /\ reqs[r].pc = "hquery"
    /\ LET q == [reqs[r] EXCEPT
                  !.handles = SliceLast(Len(page.containers), reqs[r].count),
                  !.i = 1]
       IN  IF q.handles = <<>>
           THEN HistoryReturn(r, q)
           ELSE SendContinue(r, [q EXCEPT !.pc = "hread"], obs)

\* qwen-client.ts 513-517: the text of one element is read and pushed; after
\* the last element of the slice the method returns.
HistoryRead(r) ==
    /\ reqs[r].pc = "hread"
    /\ reqs[r].handles[reqs[r].i] <= Len(page.containers)
    /\ LET q == [reqs[r] EXCEPT
                  !.history = Push(@, page.containers[reqs[r].handles[reqs[r].i]]),
                  !.i = @ + 1]
       IN  IF q.i > Len(q.handles)
           THEN HistoryReturn(r, q)
           ELSE SendContinue(r, q, obs)

\* A client before or after a successful initialize(), and a page with the
\* response containers and the completion marker earlier responses left.
InitSession ==
    /\ client \in {NewClient, ReadyClient}
    /\ browsers = [b \in Browsers |->
                     IF client.browser = b THEN "open" ELSE "none"]
    /\ headless = TRUE
    /\ cookiePath = FALSE
    /\ calls = [p \in Calls |-> IdleCall]
    /\ lastCall = Summary("none", IdleCall, NewClient, [b \in Browsers |-> "none"])
    /\ sinceCleanup = 0
    /\ justCleaned = FALSE
    /\ srv = NoServer
    /\ \E n \in ContainerCounts : \E containers \in [1..n -> Texts] :
       \E marker \in BOOLEAN :
          page = [containers |-> containers, marker |-> marker]
    /\ reqs = [r \in Reqs |-> IdleReq]
    /\ lastSend = NoSummary
    /\ obs = NoObs
    /\ stream = IdleStream
    /\ prompt = IdlePrompt
    /\ http = [r \in Reqs |-> NoHttp]

NextSession ==
    \E r \in Solo :
        \/ SendMessage(r) \/ SendMessageStream(r) \/ GetHistory(r)
        \/ HistoryQuery(r) \/ HistoryRead(r)
        \/ Resume(r)

SpecSession == InitSession /\ [][NextSession]_vars

----------------------------------------------------------------------------
\* The proxy server.

\* Some http.Server of this process has listened.
HasListened == \E n \in Servers : srv.servers[n] \in {"listening", "closing", "closed"}

\* C31: start() calls listen() only after its initialize() has resolved; when
\* initialize() rejects, start() rejects with the same error, has created no
\* server, and isRunning() is false unless another start() made a server
\* listen.
C31_ListenAfterInit ==
    /\ \A p \in Calls :
          (calls[p].kind = "start" /\ calls[p].server # 0)
          => /\ "initialize" \in {calls[p].steps[j] : j \in 1..Len(calls[p].steps)}
             /\ srv.servers[calls[p].server] # "none"
    /\ (srv.last.op = "start" /\ srv.last.res = "resolved")
       => /\ "initialize" \in {srv.last.c.steps[j] : j \in 1..Len(srv.last.c.steps)}
          /\ srv.servers[srv.last.c.server] = "listening"
    /\ (srv.last.op = "start" /\ srv.last.res = "rejected"
           /\ srv.last.err \notin {"AlreadyRunning", "ListenFailed"})
       => /\ lastCall.method = "initialize"
          /\ lastCall.c.res = "rejected"
          /\ srv.last = Op("start", "rejected", lastCall.c.err, lastCall.c)
          /\ srv.last.c.server = 0
          /\ \A p \in Calls : calls[p] # srv.last.c
          /\ srv.isServerRunning => HasListened

C31_Witness ==
    /\ srv.last.op = "start"
    /\ srv.last.res = "rejected"
    /\ srv.last.c.nLaunch = 1
    /\ srv.last.c.server = 0
    /\ ~srv.isServerRunning

\* C32: a sendMessage whose poll loop stopped on the completion marker returns
\* the trimmed text the last response container holds at the marker check.
C32_ReturnsTextAtMarker ==
    (PollEnded("sendMessage") /\ lastSend.q.exit = "complete")
        => lastSend.q.result = ReadLastContainer(page.containers)

\* C33: on a page that has not changed since the request began, a sendMessage
\* whose first tick ends the poll loop does not return text: whatever the last
\* response container holds was there before the request.
C33_FirstTickNotPreviousResponse ==
    (PollEnded("sendMessage") /\ lastSend.q.exit = "complete"
       /\ lastSend.q.elapsed = 0)
        => lastSend.q.result = <<>>

\* C34: when the marker ends the two loops on a page that only grew, the
\* chunks the streaming loop handed over, joined, are the text the
\* single-shot loop returns, up to white space around them.
C34_ModesReadSameText ==
    (stream.appendOnly /\ stream.done) => Trim(stream.all) = stream.single

LastPositions(n, count) ==
    LET start == IF count > n THEN 0 ELSE n - count
    IN  [j \in 1..(n - start) |-> start + j]

\* The texts of the last count containers that are not the empty string, in
\* page order, trimmed.
LastTexts(containers, count) ==
    LET at == LastPositions(Len(containers), count)
        raw == [j \in 1..Len(at) |-> containers[at[j]]]
        kept == SelectSeq(raw, LAMBDA t : t # <<>>)
    IN  [j \in 1..Len(kept) |-> Trim(kept[j])]

\* C39: getHistory(count) resolves with the trimmed non-empty texts of the
\* last count response elements of the page, in page order, and with at most
\* count entries.
C39_HistoryIsLastCount ==
    (lastSend.op = "getHistory" /\ lastSend.q.res = "resolved")
        => /\ lastSend.q.history = LastTexts(page.containers, lastSend.q.count)
           /\ Len(lastSend.q.history) <= lastSend.q.count

\* C36: when no start() or stop() is in progress, isRunning() is true exactly
\* when a server of this object listens, and a listening server is the one
\* stop() would close.
C36_RunningIffListening ==
    (\A p \in Calls : calls[p] = IdleCall)
        => /\ srv.isServerRunning <=> \E n \in Servers : srv.servers[n] = "listening"
           /\ \A n \in Servers :
                 srv.servers[n] = "listening" => srv.server = n /\ srv.isServerRunning

\* C37: when a stop() that closed a server resolves, the cleanup it started
\* has returned without an error, no browser is open and isConnected() is
\* false.
C37_StopAwaitsCleanup ==
    (srv.last.op = "stop" /\ srv.last.res = "resolved" /\ srv.last.c.server # 0)
        => /\ srv.last.c.pc = "closing"
           /\ srv.last.c.res = "resolved"
           /\ OpenBrowsers(browsers) = {}
           /\ ~IsConnected(client)

\* C38: when start() rejects after its initialize() began, the browser that
\* initialize() launched is not open, or it is the client's browser and the
\* server is in a state in which stop() runs the cleanup.
C38_RejectedStartLeavesNoBrowser ==
    (srv.last.op = "start" /\ srv.last.res = "rejected"
       /\ srv.last.err # "AlreadyRunning")
        => \/ OpenBrowsers(browsers) = {} /\ client = NewClient
           \/ /\ OpenBrowsers(browsers) = {client.browser}
              /\ srv.server # 0
              /\ srv.isServerRunning

\* C40: a clearCookies() that began with the qwenCookiePath key set and
\* resolved has cleared the browser cookies once, deleted the file once and
\* left the key unset.
C40_ClearCookiesForgetsSession ==
    (lastCall.method = "clearCookies" /\ lastCall.c.res = "resolved"
       /\ lastCall.c.hadPath)
        => /\ lastCall.c.nCleared = 1
           /\ lastCall.c.nDeleted = 1
           /\ ~lastCall.c.pathLeft

====
